---- MODULE Spec2Model ----
(***************************************************************************)
(* Model of the synthlab Oscillator component: the audio node registry,    *)
(* the effect-chain builder and the parameter watchers, together with the  *)
(* Vue watcher scheduler that drives them.                                 *)
(*                                                                         *)
(* The repository holds two variants of the component:                     *)
(*   "props": src/plugins/tone.client.ts lines 9-304 (one props object per *)
(*            effect, createAudioNodes + updateAudioChain)                 *)
(*   "refs":  src/unnamed/part_000 (one ref per parameter,                 *)
(*            initializeAudioChain rebuilds every node)                    *)
(* The variable `variant` selects the one a behaviour is about.            *)
(***************************************************************************)
EXTENDS Integers, Sequences, FiniteSets, TLC

\* ---------------------------------------------------------------- bounds
MaxVal == 1          \* parameter values are 0..MaxVal; 0 is the initial value
MaxToggles == 2      \* enable toggles per behaviour of Spec
MaxParamOps == 1     \* parameter assignments per behaviour of Spec
MaxAssigns == 1      \* assignments inside one event-loop turn (before the flush)
MaxTeardowns == 2    \* runs of the dispose-all step in SpecTeardown
MaxCtorCalls == 2    \* constructor calls counted per handle (the count saturates here)
MaxBurst == 2        \* enable toggles inside one event-loop turn in SpecRapid
MaxNotes == 1        \* note names played in SpecNotes
MaxNoteOps == 2      \* noteOn / noteOff calls per behaviour of SpecNotes
MaxGrabs == 2        \* mouse-downs on a knob per behaviour of SpecKnob
MaxDrag == 2         \* the pointer travels up to MaxDrag * DragUnit pixels from the grab point
MaxSynths == 2       \* createSynth calls per behaviour of SpecGraph
MaxGraphOps == 4     \* useAudioGraph calls per behaviour of SpecGraph
MaxCfgOps == 4       \* triggerNote / releaseNote / on-off clicks per behaviour of SpecConfig
MaxKeyOps == 3       \* key and key-button events per behaviour of SpecKeys
MaxTicks == 2        \* meter-polling callbacks per behaviour of SpecMeter

\* ---------------------------------------------------------------- names
\* the effect kinds, in the order the chain builders test them
Kinds == <<"filter", "distortion", "bitCrusher", "delay",
           "chorus", "phaser", "reverb", "compressor">>

EffectKinds == {Kinds[i] : i \in 1..Len(Kinds)}

WetKinds == {"delay", "chorus", "phaser", "reverb"}

\* the order in which the handles are disposed
NodeOrder == <<"synth", "filter", "distortion", "bitCrusher", "delay", "chorus",
               "phaser", "reverb", "compressor", "panner", "gainNode", "meter">>

NodeNames == {NodeOrder[i] : i \in 1..Len(NodeOrder)}

Destination == "destination"

Val == 0..MaxVal
LibDefault == MaxVal + 1 \* token: the value a Tone node has when the code never sets it
NoNode == MaxVal + 2     \* token: no node behind the handle / no value recorded

\* a parameter is <<node, field>>
AllParams ==
  { <<"filter", "type">>, <<"filter", "freq">>, <<"filter", "Q">>,
    <<"distortion", "amount">>,
    <<"bitCrusher", "bits">>,
    <<"delay", "time">>, <<"delay", "feedback">>, <<"delay", "wet">>,
    <<"reverb", "wet">>, <<"reverb", "roomSize">>,
    <<"compressor", "threshold">>, <<"compressor", "ratio">>,
    <<"chorus", "freq">>, <<"chorus", "depth">>, <<"chorus", "wet">>,
    <<"phaser", "freq">>, <<"phaser", "depth">>, <<"phaser", "wet">>,
    <<"gainNode", "gain">>, <<"panner", "pan">> }

\* the fields of the props objects, gainValue and panValue
PropsParams == AllParams

\* the parameter refs that something reads (phaserDepth and bitCrusherWet are declared
\* but neither bound in the template, nor watched, nor passed to a constructor)
RefsParams == AllParams \ { <<"phaser", "depth">> }

ParamsOf(v) == IF v = "props" THEN PropsParams ELSE RefsParams

VARIABLES
  variant,       \* "props" | "refs"
  phase,         \* "setup" | "mounted" | "unmounted"
  enabled,       \* [EffectKinds -> BOOLEAN]: the enabled flags
  ui,            \* [AllParams -> Val]: the reactive parameter state
  node,          \* [NodeNames -> {"null","live","disposed"}]: what each handle refers to
  nodeVal,       \* [AllParams -> Val \cup {LibDefault, NoNode}]: value carried by the node
  edges,         \* set of <<from, to>>: the connections of the audio graph
  disposeCalls,  \* [NodeNames -> Nat]: dispose() calls received by the node behind the handle
  threw,         \* an exception escaped a handler
  liveNodes,     \* [NodeNames -> Nat]: nodes of the kind constructed and not yet disposed
  ctorCalls,     \* [NodeNames -> 0..MaxCtorCalls]: constructor calls assigned to the handle
  wetApplied,    \* the wet parameters the most recent chain build wrote to their nodes
  pending,       \* sequence of queued watcher jobs (Vue pre-flush queue)
  turn,          \* assignments made in the current event-loop turn
  lastTurn,      \* what the most recent flush ran (cleared when the next turn begins)
  ops,           \* operation counters that bound the behaviour
  seenFlags,     \* the enabled flags the enabled watcher saw when it last ran (its oldValue)
  offWet,        \* history kept by ToggleWet: wet value at the last toggle-off, voided by a
                 \* later wet assignment
  setOff         \* history: parameters assigned while their effect was disabled

VARIABLES
  fault,         \* history: the constructor / dispose() call that was made to throw
  starting,      \* notes of the noteOn calls that wait for `await Tone.start()`, in call order
  synthLog,      \* the calls the sound source received: <<"attack" | "release", note>>
  activeNotes,   \* the activeNotes Set of the parent, in insertion order
  noteOps        \* noteOn / noteOff calls made

VARIABLES
  knobValue,     \* [KnobParams -> Int]: the modelValue prop of each knob, in thousandths
  dragging,      \* the knob whose isDragging is true, or NoKnob
  startValue,    \* startValue of the knob that is dragged, in thousandths
  emitted,       \* the most recent update:modelValue: [knob, value], or NoEmit
  grabs          \* mouse-downs made

noteVars == <<starting, synthLog, activeNotes, noteOps>>

VARIABLES
  graph          \* the module state of useAudioGraph: synths, activeNotes; with the calls
                 \* its most recent operation forwarded and the history the claims need

VARIABLES
  oscCfg         \* the OscillatorConfig component (tone.client.ts 437-652): synth, enabled,
                 \* activeNotes, the triggerNote calls waiting at their await, and the
                 \* calls its synth objects received

VARIABLES
  kbd            \* the Keyboard component with its parent: activeKeys, the parent's
                 \* activeNotes, the startNote / noteOn calls waiting at their await, and
                 \* the log of the events it received, the events it emitted and the calls
                 \* the sound source received

VARIABLES
  env            \* the envelope editor: the envelope, dragPoint, and the handle the most
                 \* recent mouse move dragged

VARIABLES
  polling        \* the meter-polling task of the Oscillator: whether the interval timer
                 \* is set, the callbacks run, and what the most recent one read

knobVars == <<knobValue, dragging, startValue, emitted, grabs>>

\* the state of the components around the Oscillator
moreVars == <<graph, oscCfg, kbd, env>>

\* the variables the chain handlers and the watcher scheduler leave alone
otherVars == <<fault, noteVars, knobVars, moreVars>>

vars == <<variant, polling, phase, enabled, ui, node, nodeVal, edges, disposeCalls, threw,
          liveNodes, ctorCalls, wetApplied, pending, turn, lastTurn, ops, seenFlags, offWet,
          setOff, otherVars>>

\* ---------------------------------------------------------------- audio state
\* the part of the state the audio handlers read and write, as one record
Audio == [node |-> node, val |-> nodeVal, edges |-> edges,
          disp |-> disposeCalls, threw |-> threw,
          live |-> liveNodes, ctor |-> ctorCalls, applied |-> wetApplied]

SetAudio(a) ==
  /\ node' = a.node
  /\ nodeVal' = a.val
  /\ edges' = a.edges
  /\ disposeCalls' = a.disp
  /\ threw' = a.threw
  /\ liveNodes' = a.live
  /\ ctorCalls' = a.ctor
  /\ wetApplied' = a.applied

\* node.disconnect(): drops every outgoing connection of n
Disconnect(e, n) == {x \in e : x[1] # n}

\* Tone.connectSeries(...chain)
ConnectSeries(chain) == {<<chain[i], chain[i + 1]>> : i \in 1..(Len(chain) - 1)}

\* handle?.dispose()
DisposeNode(a, n) ==
  IF a.node[n] = "null" THEN a
  ELSE [a EXCEPT !.node[n] = "disposed",
                 !.edges = Disconnect(@, n),
                 !.disp[n] = @ + 1,
                 !.live[n] = IF a.node[n] = "live" THEN @ - 1 ELSE @]

\* a dispose loop that reaches the effect nodes only
DisposeFrom_EffectsOnly(a, i) ==
  LET gone == {n \in EffectKinds : a.node[n] # "null"}
  IN [a EXCEPT !.node = [n \in NodeNames |-> IF n \in gone THEN "disposed" ELSE @[n]],
               !.disp = [n \in NodeNames |-> IF n \in gone THEN @[n] + 1 ELSE @[n]],
               !.live = [n \in NodeNames |->
                           IF n \in gone /\ a.node[n] = "live" THEN @[n] - 1 ELSE @[n]],
               !.edges = {x \in @ : x[1] \notin gone}]

\* handle?.dispose() on the handles NodeOrder[i], NodeOrder[i + 1], ...: what DisposeNode
\* does, for each of them that is not null (a dispose touches its own node only)
DisposeFrom(a, i) ==
  LET gone == {NodeOrder[j] : j \in {k \in i..Len(NodeOrder) : a.node[NodeOrder[k]] # "null"}}
  IN [a EXCEPT !.node = [n \in NodeNames |-> IF n \in gone THEN "disposed" ELSE @[n]],
               !.disp = [n \in NodeNames |-> IF n \in gone THEN @[n] + 1 ELSE @[n]],
               !.live = [n \in NodeNames |->
                           IF n \in gone /\ a.node[n] = "live" THEN @[n] - 1 ELSE @[n]],
               !.edges = {x \in @ : x[1] \notin gone}]

\* a dispose-all step that disposes nothing
DisposeAll_None(a) == a

\* the dispose-all step
DisposeAll(a) == DisposeFrom(a, 1)

\* `handle = new Tone.X(...)` for every handle of ns (each is named once): a new live
\* node behind each of them
ConstructSeq(a, ns) ==
  LET new == {ns[i] : i \in 1..Len(ns)}
  IN [a EXCEPT !.node = [n \in NodeNames |-> IF n \in new THEN "live" ELSE @[n]],
               !.disp = [n \in NodeNames |-> IF n \in new THEN 0 ELSE @[n]],
               !.live = [n \in NodeNames |-> IF n \in new THEN @[n] + 1 ELSE @[n]],
               !.ctor = [n \in NodeNames |->
                           IF n \in new /\ @[n] < MaxCtorCalls THEN @[n] + 1 ELSE @[n]]]

\* `handle = new Tone.X(...)`: a new live node behind handle n
Construct(a, n) == ConstructSeq(a, <<n>>)

\* ---------------------------------------------------------------- "props" variant
\* createAudioNodes without its "Set initial wet values" block
CtorProps_NoWet == {p \in PropsParams : p[2] \notin {"Q", "wet"}}

\* the parameters createAudioNodes passes to a constructor or sets right after
CtorProps == PropsParams \ { <<"filter", "Q">> }

\* the order in which createAudioNodes constructs the nodes
CtorOrderProps == <<"synth", "panner", "gainNode", "meter", "filter", "distortion",
                    "bitCrusher", "delay", "chorus", "phaser", "reverb", "compressor">>

\* createAudioNodes: twelve new nodes, parameters taken from the reactive state
CreateAudioNodes(a, u) ==
  [ConstructSeq(a, CtorOrderProps) EXCEPT
            !.val = [p \in AllParams |-> IF p \in CtorProps THEN u[p] ELSE LibDefault]]

\* updateAudioChain without synth.disconnect(): the source keeps its old connection
DisconnectEverything_KeepSynth(a) ==
  LET gone == {n \in EffectKinds : a.node[n] # "null"} \cup {"panner", "gainNode"}
  IN [a EXCEPT !.edges = {x \in @ : x[1] \notin gone}]

\* updateAudioChain that disconnects the source and the output stage but not the effects
DisconnectEverything_KeepEffects(a) ==
  [a EXCEPT !.edges = {x \in @ : x[1] \notin {"synth", "panner", "gainNode"}}]

\* "Disconnect everything first": synth, every existing effect node, panner, gainNode
DisconnectEverything(a) ==
  LET gone == {"synth"} \cup {n \in EffectKinds : a.node[n] # "null"}
              \cup {"panner", "gainNode"}
  IN [a EXCEPT !.edges = {x \in @ : x[1] \notin gone}]

\* activeEffects with delay pushed after chorus
ActiveEffects_DelayAfterChorus(a, en) ==
  SelectSeq(<<"filter", "distortion", "bitCrusher", "chorus",
              "delay", "phaser", "reverb", "compressor">>,
            LAMBDA k : en[k] /\ a.node[k] # "null")

\* activeEffects that bypasses an effect whose mix knob is at the setting MaxVal
ActiveEffects_SkipByMix(a, en) ==
  SelectSeq(Kinds, LAMBDA k : /\ en[k]
                              /\ a.node[k] # "null"
                              /\ (k \in WetKinds => ui[<<k, "wet">>] # MaxVal))

\* activeEffects built from the enabled flags alone, without the `&& filter` tests
ActiveEffects_NoNodeTest(a, en) == SelectSeq(Kinds, LAMBDA k : en[k])

\* "Build the active effects chain": enabled kinds whose node exists, in push order
ActiveEffects(a, en) ==
  SelectSeq(Kinds, LAMBDA k : en[k] /\ a.node[k] # "null")

\* updateAudioChain
UpdateAudioChain(a, en) ==
  IF a.node["synth"] = "null" \/ a.node["panner"] = "null" \/ a.node["gainNode"] = "null"
  THEN a
  ELSE LET d == DisconnectEverything(a)
           chain == <<"synth">> \o ActiveEffects(d, en) \o <<"panner", "gainNode">>
       IN [d EXCEPT !.edges = @ \cup ConnectSeries(chain)
                                \cup {<<"gainNode", "meter">>, <<"gainNode", Destination>>},
                    !.applied = {}]

\* a watcher body that writes to the node without testing the handle
HasNode_Unguarded(a, n) == TRUE

\* the `if (filter)` / `gainNode &&` test at the head of every parameter watcher
HasNode(a, n) == a.node[n] # "null"

\* the deep watcher of one props object (or of gainValue / panValue): every field of
\* the object is written to the node
KindWatcher(a, n, u) ==
  IF ~HasNode(a, n) THEN a
  ELSE IF a.node[n] = "null" THEN [a EXCEPT !.threw = TRUE]
  ELSE [a EXCEPT !.val = [p \in AllParams |->
                            IF p \in PropsParams /\ p[1] = n THEN u[p] ELSE @[p]]]

\* ---------------------------------------------------------------- "refs" variant
\* the parameters initializeAudioChain passes to a constructor
CtorRefs ==
  { <<"filter", "freq">>, <<"filter", "type">>, <<"distortion", "amount">>,
    <<"bitCrusher", "bits">>, <<"delay", "time">>, <<"delay", "feedback">>,
    <<"chorus", "freq">>, <<"chorus", "depth">>, <<"phaser", "freq">>,
    <<"reverb", "roomSize">>, <<"compressor", "threshold">>,
    <<"compressor", "ratio">>, <<"panner", "pan">>, <<"gainNode", "gain">> }

\* the refs that have a watcher
WatchedRefs == RefsParams \ { <<"reverb", "roomSize">> }

\* initializeAudioChain that connects a wet effect without setting its wet value
WetAtConnect_Never(en, p) == FALSE

\* `delay.wet.value = delayWet.value` etc.: done only inside the `if (xEnabled.value)` branch
WetAtConnect(en, p) == p[2] = "wet" /\ p[1] \in WetKinds /\ en[p[1]]

\* initializeAudioChain: dispose what exists, construct twelve nodes, connect the chain
InitializeAudioChain(a, en, u) ==
  LET d == DisposeAll(a)
      chain == <<"synth">> \o SelectSeq(Kinds, LAMBDA k : en[k]) \o <<"panner">>
  IN [ConstructSeq(d, NodeOrder) EXCEPT
               !.val = [p \in AllParams |->
                          IF p \in CtorRefs \/ WetAtConnect(en, p) THEN u[p]
                          ELSE LibDefault],
               !.edges = @ \cup ConnectSeries(chain)
                           \cup {<<"panner", "gainNode">>, <<"gainNode", "meter">>,
                                 <<"gainNode", Destination>>},
               !.applied = {p \in AllParams : WetAtConnect(en, p)}]

\* the watcher of one parameter ref
ParamWatcher(a, p, u) ==
  IF ~HasNode(a, p[1]) THEN a
  ELSE IF a.node[p[1]] = "null" THEN [a EXCEPT !.threw = TRUE]
  ELSE [a EXCEPT !.val[p] = u[p]]

\* ---------------------------------------------------------------- calls that throw
\* the constructors of ns in order, the one of `bad` throwing: nothing catches it, so the
\* handles after it keep what they held
RECURSIVE ConstructThrowingAt(_, _, _)
ConstructThrowingAt(a, ns, bad) ==
  IF ns = <<>> THEN a
  ELSE IF Head(ns) = bad THEN [a EXCEPT !.threw = TRUE]
  ELSE ConstructThrowingAt(Construct(a, Head(ns)), Tail(ns), bad)

\* the value a node carries after a run of constructors only (the statements after the
\* constructors, which set the wet values and connect the chain, were not reached)
ValAfterCtors(a, u, ctorParams) ==
  [p \in AllParams |->
     IF a.node[p[1]] # "live" THEN NoNode
     ELSE IF p \in ctorParams /\ p[2] # "wet" THEN u[p]
     ELSE LibDefault]

\* createAudioNodes with the constructor of `bad` throwing
CreateAudioNodesThrowing(a, u, bad) ==
  LET c == ConstructThrowingAt(a, CtorOrderProps, bad)
  IN [c EXCEPT !.val = ValAfterCtors(c, u, CtorProps)]

\* initializeAudioChain with the constructor of `bad` throwing
InitializeAudioChainThrowing(a, u, bad) ==
  LET c == ConstructThrowingAt(DisposeAll(a), NodeOrder, bad)
  IN [c EXCEPT !.val = ValAfterCtors(c, u, CtorRefs)]

\* the dispose-all step with the dispose() of `bad` throwing: the loop ends there
RECURSIVE DisposeThrowingAt(_, _, _)
DisposeThrowingAt(a, i, bad) ==
  IF i > Len(NodeOrder) THEN a
  ELSE IF NodeOrder[i] = bad /\ a.node[bad] # "null"
       THEN [a EXCEPT !.threw = TRUE, !.disp[bad] = @ + 1]
       ELSE DisposeThrowingAt(DisposeNode(a, NodeOrder[i]), i + 1, bad)

\* ---------------------------------------------------------------- watcher scheduler
ChainJob == <<"chain">>
WatchJob(x) == <<"watch", x>>

\* an enabled flag that queues no job when it changes
JobsOfToggle_None(v, k) == <<>>

\* the watchers triggered by assigning an enabled flag.  props: the flag lives in the
\* props object, whose replacement triggers the enabled-flags getter and the deep watcher
JobsOfToggle(v, k) ==
  IF v = "props" THEN <<ChainJob, WatchJob(k)>> ELSE <<ChainJob>>

\* the watchers triggered by assigning a parameter.  props: EffectControl and
\* ModulationControl emit a fresh object, so the ref of the props object is replaced and
\* the enabled-flags getter, which reads that ref, is triggered as well
JobsOfParam(v, p) ==
  IF v = "props"
  THEN IF p[1] \in EffectKinds THEN <<ChainJob, WatchJob(p[1])>> ELSE <<WatchJob(p[1])>>
  ELSE IF p \in WatchedRefs THEN <<WatchJob(p)>> ELSE <<>>

InQueue(q, j) == \E i \in 1..Len(q) : q[i] = j

\* the number of entries of the sequence that equal x
Count(seq, x) == Cardinality({i \in 1..Len(seq) : seq[i] = x})

\* a queue that takes a job once more when it is already queued
RECURSIVE Enqueue_Again(_, _)
Enqueue_Again(q, js) ==
  IF js = <<>> THEN q ELSE Enqueue_Again(Append(q, Head(js)), Tail(js))

\* queueJob: a job already in the queue is not queued again
RECURSIVE Enqueue(_, _)
Enqueue(q, js) ==
  IF js = <<>> THEN q
  ELSE Enqueue(IF InQueue(q, Head(js)) THEN q ELSE Append(q, Head(js)), Tail(js))

\* the callback of one job
RunJob(a, j, v, en, u) ==
  IF j = ChainJob
  THEN IF v = "props" THEN UpdateAudioChain(a, en) ELSE InitializeAudioChain(a, en, u)
  ELSE IF v = "props" THEN KindWatcher(a, j[2], u) ELSE ParamWatcher(a, j[2], u)

RECURSIVE RunJobs(_, _, _, _, _)
RunJobs(a, q, v, en, u) ==
  IF q = <<>> THEN a
  ELSE RunJobs(RunJob(a, Head(q), v, en, u), Tail(q), v, en, u)

\* ---------------------------------------------------------------- notes
NoteNames == <<"C4", "E4", "G4">>

Notes == {NoteNames[i] : i \in 1..MaxNotes}

Has(set, x) == \E i \in 1..Len(set) : set[i] = x

\* a Set.add that stores the value once more when it is already there
SetAdd_Again(set, x) == Append(set, x)

\* Set.prototype.add
SetAdd(set, x) == IF Has(set, x) THEN set ELSE Append(set, x)

\* Set.prototype.delete
SetDelete(set, x) == SelectSeq(set, LAMBDA y : y # x)

\* `synth?.triggerAttack(note)` / `synth?.triggerRelease(note)`
SynthCall(log, a, what, n) ==
  IF a.node["synth"] = "null" THEN log ELSE Append(log, <<what, n>>)

\* a noteOn that calls triggerAttack without awaiting Tone.start()
OscNoteOn_NoAwait(st, a, n) ==
  [st EXCEPT !.log = SynthCall(@, a, "attack", n)]

\* Oscillator.noteOn up to its `await Tone.start()`: the rest of the body is a
\* continuation that runs when the promise has resolved
OscNoteOn(st, a, n) == [st EXCEPT !.starting = Append(@, n)]

\* the rest of Oscillator.noteOn.  refs: props.activeNotes?.add(note) first
OscNoteOnResumed(st, a, v, n) ==
  [starting |-> Tail(st.starting),
   active |-> IF v = "refs" THEN SetAdd(st.active, n) ELSE st.active,
   log |-> SynthCall(st.log, a, "attack", n)]

\* Oscillator.noteOff
OscNoteOff(st, a, v, n) ==
  [st EXCEPT !.active = IF v = "refs" THEN SetDelete(@, n) ELSE @,
             !.log = SynthCall(@, a, "release", n)]

\* a note call that queues the chain rebuild
JobsOfNote_Chain(v) == <<ChainJob>>

\* the watchers triggered by a note call: no watcher of the Oscillator reads activeNotes
JobsOfNote(v) == <<>>

\* ---------------------------------------------------------------- Knob
\* Values are integers in thousandths: 250 is 0.25.  The arithmetic is exact.
NoStep == -1   \* token: the prop is not passed
NoUnit == ""   \* token: the prop is not passed

\* the knobs EffectControl declares, named by the field they are bound to: min, max,
\* step and unit as passed
KnobDecl ==
  ( <<"reverb", "roomSize">> :> [min |-> 100, max |-> 10000, step |-> NoStep, unit |-> "s"] ) @@
  ( <<"reverb", "wet">> :> [min |-> 0, max |-> 1000, step |-> NoStep, unit |-> "%"] ) @@
  ( <<"compressor", "threshold">> :>
      [min |-> -60000, max |-> 0, step |-> NoStep, unit |-> "dB"] ) @@
  ( <<"compressor", "ratio">> :>
      [min |-> 1000, max |-> 20000, step |-> NoStep, unit |-> ":1"] ) @@
  ( <<"distortion", "amount">> :> [min |-> 0, max |-> 1000, step |-> NoStep, unit |-> "%"] ) @@
  ( <<"bitCrusher", "bits">> :>
      [min |-> 1000, max |-> 16000, step |-> NoStep, unit |-> NoUnit] ) @@
  ( <<"delay", "time">> :> [min |-> 1, max |-> 1000, step |-> 1, unit |-> "s"] ) @@
  ( <<"delay", "feedback">> :> [min |-> 0, max |-> 950, step |-> NoStep, unit |-> "%"] ) @@
  ( <<"delay", "wet">> :> [min |-> 0, max |-> 1000, step |-> NoStep, unit |-> "%"] )

KnobParams == DOMAIN KnobDecl

\* the values the parent starts with
KnobInit ==
  ( <<"reverb", "roomSize">> :> 700 ) @@ ( <<"reverb", "wet">> :> 300 ) @@
  ( <<"compressor", "threshold">> :> -20000 ) @@ ( <<"compressor", "ratio">> :> 4000 ) @@
  ( <<"distortion", "amount">> :> 400 ) @@ ( <<"bitCrusher", "bits">> :> 8000 ) @@
  ( <<"delay", "time">> :> 250 ) @@ ( <<"delay", "feedback">> :> 300 ) @@
  ( <<"delay", "wet">> :> 300 )

NoKnob == <<"none", "none">>
NoEmit == [knob |-> NoKnob, value |-> 0]

\* `props.step ?? props.unit === "%" ? 0.01 : 0.1`: === binds tighter than ??, and ??
\* tighter than ?:, so the condition of the ?: is (props.step ?? (props.unit === "%"))
StepCondition(d) == IF d.step # NoStep THEN d.step # 0 ELSE d.unit = "%"

\* const step
KnobStep(d) == IF StepCondition(d) THEN 10 ELSE 100

Min2(x, y) == IF x < y THEN x ELSE y
Max2(x, y) == IF x > y THEN x ELSE y

\* pixels per unit of pointer travel
DragUnit == 100

\* the values of deltaY = startY - e.clientY
DeltaYs == {i * DragUnit : i \in -MaxDrag..MaxDrag}

\* the value handleMouseMove emits: newValue = startValue + (deltaY / 200) * range,
\* clamped to [min, max], then Math.round(clamped / step) * step.  n is newValue in
\* 200ths of a thousandth; Math.round(x) is floor(x + 1/2)
KnobEmits(d, start, deltaY) ==
  LET n == 200 * start + deltaY * (d.max - d.min)
      clamped == Max2(200 * d.min, Min2(200 * d.max, n))
      st == KnobStep(d)
  IN ((2 * clamped + 200 * st) \div (400 * st)) * st

\* ---------------------------------------------------------------- useAudioGraph
\* a SynthData: its id, the PolySynth object it holds (objects are numbered in the order
\* of their construction) and the rest of its fields as one value
SynthData(id, synth, data) == [id |-> id, synth |-> synth, data |-> data]

NoSynth == SynthData(0, 0, 0)

\* the ids: createSynth draws a fresh UUID, here the next unused number; one id more
\* than createSynth can draw stands for an id that is in no list
SynthIds == 1..(MaxSynths + 1)

\* the SynthData values updateSynth is called with
SynthUpdates == {SynthData(id, s, v) : id \in SynthIds, s \in 1..MaxSynths, v \in Val}

\* synths = [], activeNotes = new Set(); op, note, arg and calls describe the most recent
\* call, lastEvent the most recent note event of each note, count the calls made
GraphInit ==
  [synths |-> <<>>, activeNotes |-> <<>>,
   op |-> "none", note |-> "", arg |-> NoSynth, calls |-> <<>>,
   lastEvent |-> [n \in Notes |-> "none"], count |-> 0]

\* the record of a call
Called(g, op, n, u, calls) ==
  [g EXCEPT !.op = op, !.note = n, !.arg = u, !.calls = calls, !.count = @ + 1]

\* createSynth: a new PolySynth under a fresh id, pushed onto synths
GraphCreateSynth(g) ==
  LET k == Len(g.synths) + 1
  IN [Called(g, "createSynth", "", SynthData(k, k, 0), <<>>) EXCEPT
        !.synths = Append(@, SynthData(k, k, 0))]

\* an updateSynth that pushes the entry when no entry has its id
UpdateList_Upsert(list, u) ==
  IF \E i \in 1..Len(list) : list[i].id = u.id
  THEN [i \in 1..Len(list) |-> IF list[i].id = u.id THEN u ELSE list[i]]
  ELSE Append(list, u)

\* synths.value.map((s) => s.id === updatedSynth.id ? updatedSynth : s)
UpdateList(list, u) ==
  [i \in 1..Len(list) |-> IF list[i].id = u.id THEN u ELSE list[i]]

\* updateSynth
GraphUpdateSynth(g, u) ==
  [Called(g, "updateSynth", "", u, <<>>) EXCEPT !.synths = UpdateList(g.synths, u)]

\* a forEach that reaches the synths only when the note is active
ForEachSynth_IfActive(g, what, n) ==
  IF Has(g.activeNotes, n)
  THEN [i \in 1..Len(g.synths) |-> <<what, n, g.synths[i].synth>>]
  ELSE <<>>

\* synths.value.forEach((s) => s.synth.triggerX(note)): the calls, in list order
ForEachSynth(g, what, n) ==
  [i \in 1..Len(g.synths) |-> <<what, n, g.synths[i].synth>>]

\* noteOn of useAudioGraph
GraphNoteOn(g, n) ==
  [Called(g, "noteOn", n, NoSynth, ForEachSynth(g, "attack", n)) EXCEPT
     !.activeNotes = SetAdd(@, n), !.lastEvent[n] = "on"]

\* noteOff of useAudioGraph
GraphNoteOff(g, n) ==
  [Called(g, "noteOff", n, NoSynth, ForEachSynth(g, "release", n)) EXCEPT
     !.activeNotes = SetDelete(@, n), !.lastEvent[n] = "off"]

\* ---------------------------------------------------------------- OscillatorConfig
\* `let synth = null; let enabled = true; const activeNotes = new Set()`.  synth is 0 for
\* null, else the number of the PolySynth object; waiting holds the notes of the
\* triggerNote calls suspended at `await startSynth()`, in call order; an entry of log is
\* a call a synth received: what, note, the synth object, and whether the oscillator was
\* on and the note in activeNotes when the call was made
CfgInit ==
  [mounted |-> FALSE, synth |-> 0, made |-> 0, enabled |-> TRUE, activeNotes |-> <<>>,
   waiting |-> <<>>, log |-> <<>>, count |-> 0]

\* new Tone.PolySynth(...).toDestination(), assigned to synth
CfgNewSynth(c) == [c EXCEPT !.made = @ + 1, !.synth = c.made + 1]

\* onMounted
CfgOnMounted(c) == [CfgNewSynth(c) EXCEPT !.mounted = TRUE]

\* startSynth up to its await: `if (!synth) synth = new Tone.PolySynth(...)`
CfgStartSynth(c) == IF c.synth = 0 THEN CfgNewSynth(c) ELSE c

\* triggerNote up to `await startSynth()`
CfgTriggerNote(c, n) == [CfgStartSynth(c) EXCEPT !.waiting = Append(@, n), !.count = @ + 1]

CfgCall(c, what, n) ==
  [what |-> what, note |-> n, synth |-> c.synth, on |-> c.enabled,
   active |-> Has(c.activeNotes, n)]

\* the rest of triggerNote, without the `|| !enabled` test
CfgTriggerResumed_Unguarded(c) ==
  LET n == Head(c.waiting)
      r == [c EXCEPT !.waiting = Tail(@)]
  IN IF r.synth = 0 THEN r
     ELSE [r EXCEPT !.log = Append(@, CfgCall(c, "attack", n)),
                    !.activeNotes = SetAdd(@, n)]

\* the rest of triggerNote: `if (!synth || !enabled) return; synth.triggerAttack(note);
\* activeNotes.add(note)`
CfgTriggerResumed(c) ==
  LET n == Head(c.waiting)
      r == [c EXCEPT !.waiting = Tail(@)]
  IN IF r.synth = 0 \/ ~r.enabled THEN r
     ELSE [r EXCEPT !.log = Append(@, CfgCall(c, "attack", n)),
                    !.activeNotes = SetAdd(@, n)]

\* releaseNote
CfgReleaseNote(c, n) ==
  LET r == [c EXCEPT !.count = @ + 1]
  IN IF r.synth = 0 \/ ~r.enabled THEN r
     ELSE IF Has(r.activeNotes, n)
          THEN [r EXCEPT !.log = Append(@, CfgCall(c, "release", n)),
                         !.activeNotes = SetDelete(@, n)]
          ELSE r

\* the On / Off button: `enabled = !enabled`
CfgToggle(c) == [c EXCEPT !.enabled = ~@, !.count = @ + 1]

\* ---------------------------------------------------------------- Keyboard
\* "emit": Keyboard.vue and the second Keyboard of part_007, whose startNote / endNote
\* only emit; the parent is part_004 / part_006.  "synth": the first Keyboard of
\* part_007, which takes the synth as a prop and tests props.activeNotes; the parent is
\* the component of tone.client.ts 800-990
KbdVariants == {"emit", "synth"}

\* the variant of a component whose setup has not run
NotSetUp == "none"

NoNote == "none"

\* whiteKeyNotes for START_OCTAVE = 4: octaveTemplate filtered to the white keys
WhiteKeyNotes == <<"C4", "D4", "E4", "F4", "G4", "A4", "B4">>

\* the start of whiteKeyRows[0]
WhiteKeyRow == <<"z", "x", "c", "v", "b", "n", "m">>

\* keyMap[e.key]: the rows are walked in step with the notes; NoNote for undefined
KeyMap(key) ==
  IF \E i \in 1..Len(WhiteKeyRow) : WhiteKeyRow[i] = key
  THEN WhiteKeyNotes[CHOOSE i \in 1..Len(WhiteKeyRow) : WhiteKeyRow[i] = key]
  ELSE NoNote

\* the e.key values of the key events: the keys of the notes played and one keyMap lacks
Keys == {WhiteKeyRow[i] : i \in {j \in 1..Len(WhiteKeyRow) : WhiteKeyNotes[j] \in Notes}}
          \cup {"Shift"}

KbdInit(v) ==
  [variant |-> v, mounted |-> FALSE, activeKeys |-> {}, activeNotes |-> {},
   starting |-> <<>>, waiting |-> <<>>, log |-> <<>>, count |-> 0]

\* the log grows by the event received, the event emitted or the call made
KbdLog(k, e) == [k EXCEPT !.log = Append(@, e)]

\* the parent's noteOn(note).  part_004: activeNotes.value.add(note); osc.noteOn(note),
\* which waits for Tone.start().  tone.client.ts 967: await Tone.start() comes first
ParentNoteOn(k, n) ==
  IF k.variant = "emit"
  THEN [k EXCEPT !.activeNotes = @ \cup {n}, !.waiting = Append(@, n)]
  ELSE [k EXCEPT !.waiting = Append(@, n)]

\* the noteOn that waited longest continues.  part_004's oscillator: synth?.triggerAttack.
\* tone.client.ts 969-970: activeNotes.value.add(note); synth?.triggerAttack(note)
ParentNoteOnResumed(k) ==
  LET n == Head(k.waiting)
      k1 == [k EXCEPT !.waiting = Tail(@)]
  IN  IF k.variant = "emit"
      THEN KbdLog(k1, <<"attack", n>>)
      ELSE KbdLog([k1 EXCEPT !.activeNotes = @ \cup {n}], <<"attack", n>>)

\* the parent's noteOff(note): activeNotes.value.delete(note), then triggerRelease(note)
\* on the sound source (part_004: osc.noteOff(note), which calls it)
ParentNoteOff(k, n) ==
  KbdLog([k EXCEPT !.activeNotes = @ \ {n}], <<"release", n>>)

\* startNote(note).  "emit": emit("noteOn", note).  "synth": returns when
\* props.activeNotes has the note, else waits for Tone.start()
StartNote(k, n) ==
  IF k.variant = "emit"
  THEN ParentNoteOn(KbdLog(k, <<"noteOn", n>>), n)
  ELSE IF n \in k.activeNotes THEN k ELSE [k EXCEPT !.starting = Append(@, n)]

\* "synth": the startNote that waited longest continues:
\* props.synth?.triggerAttack(note); emit("noteOn", note)
StartNoteResumed(k) ==
  LET n == Head(k.starting)
      k1 == KbdLog([k EXCEPT !.starting = Tail(@)], <<"attack", n>>)
  IN  ParentNoteOn(KbdLog(k1, <<"noteOn", n>>), n)

\* endNote(note).  "emit": emit("noteOff", note).  "synth": returns unless
\* props.activeNotes has the note; props.synth?.triggerRelease(note); emit("noteOff", note)
EndNote(k, n) ==
  IF k.variant = "emit"
  THEN ParentNoteOff(KbdLog(k, <<"noteOff", n>>), n)
  ELSE IF n \notin k.activeNotes
       THEN k
       ELSE ParentNoteOff(KbdLog(KbdLog(k, <<"release", n>>), <<"noteOff", n>>), n)

HandleKeyDown_NoActiveTest(k, key) ==
  LET note == KeyMap(key)
      k1 == KbdLog(k, <<"keydown", key>>)
  IN  IF note # NoNote
      THEN StartNote([k1 EXCEPT !.activeKeys = @ \cup {note}], note)
      ELSE k1

\* handleKeyDown(e)
HandleKeyDown(k, key) ==
  LET note == KeyMap(key)
      k1 == KbdLog(k, <<"keydown", key>>)
  IN  IF note # NoNote /\ note \notin k.activeKeys
      THEN StartNote([k1 EXCEPT !.activeKeys = @ \cup {note}], note)
      ELSE k1

\* handleKeyUp(e)
HandleKeyUp(k, key) ==
  LET note == KeyMap(key)
      k1 == KbdLog(k, <<"keyup", key>>)
  IN  IF note # NoNote
      THEN EndNote([k1 EXCEPT !.activeKeys = @ \ {note}], note)
      ELSE k1

\* the handlers of a key button: @mousedown / @touchstart, @mouseup / @touchend, @mouseleave
KeyButton(k, ev, n) ==
  LET k1 == KbdLog(k, <<ev, n>>)
  IN  IF ev = "mousedown" THEN StartNote(k1, n) ELSE EndNote(k1, n)

\* ---------------------------------------------------------------- envelope editor
\* "stretch": handleMouseMove of part_000 371-395 and tone.client.ts 939-964, whose
\* sustain handle also sets decay; "plain": OscillatorConfig, tone.client.ts 579-596
EnvVariants == {"stretch", "plain"}

NoPoint == "none"

\* the data-point attributes of the handles
DragPoints == {"attack", "hold", "decay", "sustain"}

\* the envelope ref after setup, times in hundredths of a second, sustain in hundredths.
\* "plain" takes it from props.oscillator.envelope, here with the ?? fallbacks
EnvInit(v) ==
  [variant |-> v,
   envelope |-> IF v = "stretch"
                THEN [attack |-> 10, hold |-> 10, decay |-> 10, sustain |-> 70, release |-> 50]
                ELSE [attack |-> 1, hold |-> 10, decay |-> 10, sustain |-> 80, release |-> 100],
   isDragging |-> FALSE, dragPoint |-> NoPoint, moved |-> NoPoint]

\* where the pointer is, in hundredths of the width / height of the svg box, measured
\* from its left / top edge: x / svgWidth.value and y / svgHeight.value
PointerXs == {-50, 0, 50, 100, 150}

PointerYs == {-50, 50, 150}

MathMax(a, b) == IF a >= b THEN a ELSE b

MathMin(a, b) == IF a <= b THEN a ELSE b

\* Math.max(0, Math.min(1, x / svgWidth.value)), in hundredths
NormalizedX(px) == MathMax(0, MathMin(100, px))

\* Math.max(0, Math.min(1, 1 - y / svgHeight.value)), in hundredths
NormalizedY(py) == MathMax(0, MathMin(100, 100 - py))

\* handleMouseDown on the element whose data-point is point (NoPoint: it has none)
EnvHandleMouseDown(e, point) ==
  IF point # NoPoint THEN [e EXCEPT !.isDragging = TRUE, !.dragPoint = point] ELSE e

EnvHandleMouseUp(e) == [e EXCEPT !.isDragging = FALSE, !.dragPoint = NoPoint]

EnvHandleMouseMove_NoFloor(e, px, py) ==
  LET nx == NormalizedX(px)
      ny == NormalizedY(py)
      env0 == e.envelope
      e1 == [e EXCEPT !.moved = e.dragPoint]
  IN  IF ~e.isDragging \/ e.dragPoint = NoPoint THEN e
      ELSE IF e.dragPoint = "attack" THEN [e1 EXCEPT !.envelope.attack = MathMax(1, nx * 2)]
      ELSE IF e.dragPoint = "hold" THEN [e1 EXCEPT !.envelope.hold = MathMax(1, nx * 2)]
      ELSE IF e.dragPoint = "decay" THEN [e1 EXCEPT !.envelope.decay = MathMax(1, nx * 2)]
      ELSE IF e.variant = "plain" THEN [e1 EXCEPT !.envelope.sustain = ny]
      ELSE [e1 EXCEPT !.envelope.sustain = ny,
                      !.envelope.decay = nx * 2 - env0.attack - env0.hold]

\* handleMouseMove(e) with the pointer at (px, py); the svg is rendered
EnvHandleMouseMove(e, px, py) ==
  LET nx == NormalizedX(px)
      ny == NormalizedY(py)
      env0 == e.envelope
      e1 == [e EXCEPT !.moved = e.dragPoint]
  IN  IF ~e.isDragging \/ e.dragPoint = NoPoint THEN e
      ELSE IF e.dragPoint = "attack" THEN [e1 EXCEPT !.envelope.attack = MathMax(1, nx * 2)]
      ELSE IF e.dragPoint = "hold" THEN [e1 EXCEPT !.envelope.hold = MathMax(1, nx * 2)]
      ELSE IF e.dragPoint = "decay" THEN [e1 EXCEPT !.envelope.decay = MathMax(1, nx * 2)]
      ELSE IF e.variant = "plain" THEN [e1 EXCEPT !.envelope.sustain = ny]
      ELSE [e1 EXCEPT !.envelope.sustain = ny,
                      !.envelope.decay = MathMax(1, nx * 2 - env0.attack - env0.hold)]

\* ---------------------------------------------------------------- meter polling
NoPolling == [timer |-> FALSE, ticks |-> 0, read |-> "none"]

\* setInterval(() => { const val = meter?.getValue() ... }, 50) at the end of onMounted
SetInterval(p) == [p EXCEPT !.timer = TRUE]

\* the interval callback: meter?.getValue() is called on the node the handle refers to
MeterCallback(p, a) == [p EXCEPT !.ticks = @ + 1, !.read = a.node["meter"]]

\* ---------------------------------------------------------------- state machine
NoAssigns == [flag |-> 0, param |-> 0]

\* no call was made to throw
NoFault == [ctor |-> "none", dispose |-> "none"]

\* no flush on record
NoFlush == [flag |-> 0, param |-> 0, chain |-> 0, mounted |-> FALSE, waiting |-> FALSE]

Init ==
  /\ variant \in {"props", "refs"}
  /\ phase = "setup"
  /\ enabled = [k \in EffectKinds |-> FALSE]
  /\ ui = [p \in AllParams |-> 0]
  /\ node = [n \in NodeNames |-> "null"]
  /\ nodeVal = [p \in AllParams |-> NoNode]
  /\ edges = {}
  /\ disposeCalls = [n \in NodeNames |-> 0]
  /\ threw = FALSE
  /\ liveNodes = [n \in NodeNames |-> 0]
  /\ ctorCalls = [n \in NodeNames |-> 0]
  /\ wetApplied = {}
  /\ pending = <<>>
  /\ turn = NoAssigns
  /\ lastTurn = NoFlush
  /\ ops = [toggle |-> 0, param |-> 0, teardown |-> 0]
  /\ seenFlags = [k \in EffectKinds |-> FALSE]
  /\ offWet = [k \in WetKinds |-> NoNode]
  /\ setOff = {}
  /\ fault = NoFault
  /\ starting = <<>>
  /\ synthLog = <<>>
  /\ activeNotes = <<>>
  /\ noteOps = 0
  /\ knobValue = KnobInit
  /\ dragging = NoKnob
  /\ startValue = 0
  /\ emitted = NoEmit
  /\ grabs = 0
  /\ graph = GraphInit
  /\ oscCfg = CfgInit
  /\ kbd = KbdInit(NotSetUp)
  /\ env = EnvInit(NotSetUp)
  /\ polling = NoPolling

\* onMounted: props: createAudioNodes(); updateAudioChain().  refs: initializeAudioChain().
\* Mounted hooks are post-flush callbacks: the watcher queue has been drained before
OnMounted ==
  /\ phase = "setup"
  /\ turn = NoAssigns
  /\ phase' = "mounted"
  /\ SetAudio(IF variant = "props"
              THEN UpdateAudioChain(CreateAudioNodes(Audio, ui), enabled)
              ELSE InitializeAudioChain(Audio, enabled, ui))
  /\ polling' = SetInterval(polling)
  /\ UNCHANGED <<variant, enabled, ui, pending, turn, lastTurn, ops, seenFlags,
                 offWet, setOff, otherVars>>

\* the assignment that flips one enabled flag (checkbox / PowerButton handler)
AssignEnabled(k) ==
  /\ phase \in {"setup", "mounted"}
  /\ enabled' = [enabled EXCEPT ![k] = ~@]
  /\ pending' = Enqueue(pending, JobsOfToggle(variant, k))
  /\ turn' = [turn EXCEPT !.flag = @ + 1]
  /\ lastTurn' = NoFlush
  /\ UNCHANGED <<variant, polling, phase, ui, node, nodeVal, edges, disposeCalls, threw,
                 liveNodes, ctorCalls, wetApplied,
                 seenFlags, setOff, otherVars>>

\* a flip while the turn has room for an assignment
FlipEnabled(k) ==
  /\ turn.flag + turn.param < MaxAssigns
  /\ AssignEnabled(k)

\* a toggle issued back to back with others: up to MaxBurst of them in one turn
ToggleRapid(k) ==
  /\ turn.param = 0
  /\ turn.flag < MaxBurst
  /\ AssignEnabled(k)
  /\ UNCHANGED <<ops, offWet>>

\* a toggle, counted against MaxToggles
Toggle(k) ==
  /\ ops.toggle < MaxToggles
  /\ FlipEnabled(k)
  /\ ops' = [ops EXCEPT !.toggle = @ + 1]
  /\ UNCHANGED offWet

\* a toggle that is not counted
ToggleFree(k) ==
  /\ FlipEnabled(k)
  /\ UNCHANGED <<ops, offWet>>

\* an uncounted toggle of a wet effect; a toggle-off records the wet value in offWet
ToggleWet(k) ==
  /\ k \in WetKinds
  /\ FlipEnabled(k)
  /\ offWet' = IF enabled[k] THEN [offWet EXCEPT ![k] = ui[<<k, "wet">>]] ELSE offWet
  /\ UNCHANGED ops

\* the assignment of one parameter (slider / knob / select handler)
AssignParam(p, v) ==
  /\ phase \in {"setup", "mounted"}
  /\ turn.flag + turn.param < MaxAssigns
  /\ ops.param < MaxParamOps
  /\ p \in ParamsOf(variant)
  /\ v # ui[p]
  /\ ui' = [ui EXCEPT ![p] = v]
  /\ pending' = Enqueue(pending, JobsOfParam(variant, p))
  /\ turn' = [turn EXCEPT !.param = @ + 1]
  /\ ops' = [ops EXCEPT !.param = @ + 1]
  /\ lastTurn' = NoFlush
  /\ UNCHANGED <<variant, polling, phase, enabled, node, nodeVal, edges, disposeCalls, threw,
                 liveNodes, ctorCalls, wetApplied,
                 seenFlags, otherVars>>

\* a parameter assignment; setOff records whether its effect was disabled at the time
SetParam(p, v) ==
  /\ AssignParam(p, v)
  /\ setOff' = IF p[1] \in EffectKinds /\ ~enabled[p[1]]
               THEN setOff \cup {p}
               ELSE setOff \ {p}
  /\ UNCHANGED offWet

\* the assignment of the wet parameter of a wet effect; it voids the wet value on record
SetWet(k, v) ==
  /\ k \in WetKinds
  /\ AssignParam(<<k, "wet">>, v)
  /\ offWet' = [offWet EXCEPT ![k] = NoNode]
  /\ UNCHANGED setOff

\* the enabled watcher calls its callback: props: the getter returns a fresh array, which
\* always differs from the old one; refs: only when an element differs from its old value
ChainCallbackRuns == variant = "props" \/ enabled # seenFlags

\* the jobs of the flush whose callback runs
Runnable == SelectSeq(pending, LAMBDA j : j # ChainJob \/ ChainCallbackRuns)

\* the scheduler flush that ends the turn: every queued watcher job runs, in queue order
FlushJobs ==
  /\ phase \in {"setup", "mounted"}
  /\ turn.flag + turn.param > 0
  /\ SetAudio(RunJobs(Audio, Runnable, variant, enabled, ui))
  /\ pending' = <<>>
  /\ turn' = NoAssigns
  /\ lastTurn' = [flag |-> turn.flag, param |-> turn.param,
                  chain |-> Count(Runnable, ChainJob),
                  mounted |-> phase = "mounted",
                  waiting |-> starting # <<>>]
  /\ seenFlags' = IF InQueue(pending, ChainJob) THEN enabled ELSE seenFlags
  /\ UNCHANGED <<variant, polling, phase, enabled, ui, ops, offWet, setOff, otherVars>>

\* the dispose-all step of onBeforeUnmount
Teardown ==
  /\ SetAudio(DisposeAll(Audio))
  /\ ops' = [ops EXCEPT !.teardown = @ + 1]
  /\ UNCHANGED <<variant, polling, enabled, ui, pending, turn, lastTurn, seenFlags,
                 offWet, setOff, otherVars>>

\* onBeforeUnmount; the component is unmounted by a render job, which runs after the
\* queued watcher jobs
OnBeforeUnmount ==
  /\ phase = "mounted"
  /\ turn = NoAssigns
  /\ phase' = "unmounted"
  /\ Teardown

\* the dispose-all step run once more on the torn-down component
TeardownAgain ==
  /\ phase = "unmounted"
  /\ ops.teardown < MaxTeardowns
  /\ UNCHANGED phase
  /\ Teardown

Next ==
  \/ OnMounted
  \/ \E k \in EffectKinds : Toggle(k)
  \/ \E p \in AllParams, v \in Val : SetParam(p, v)
  \/ FlushJobs
  \/ OnBeforeUnmount

Spec == Init /\ [][Next]_vars

\* enable toggles only, any number of them: every subset of the kinds is reached
NextChain ==
  \/ OnMounted
  \/ \E k \in EffectKinds : ToggleFree(k)
  \/ FlushJobs
  \/ OnBeforeUnmount

SpecChain == Init /\ [][NextChain]_vars

\* the four effects with a wet parameter: any number of toggles, wet assignments only
NextWet ==
  \/ OnMounted
  \/ \E k \in WetKinds : ToggleWet(k)
  \/ \E k \in WetKinds, v \in Val : SetWet(k, v)
  \/ FlushJobs
  \/ OnBeforeUnmount

SpecWet == Init /\ [][NextWet]_vars

\* Spec, with the dispose-all step callable again after unmount
NextTeardown ==
  \/ Next
  \/ TeardownAgain

SpecTeardown == Init /\ [][NextTeardown]_vars

\* onMounted in which the constructor of effect k throws: the exception leaves the hook
\* (Vue reports it), so nothing after the constructor runs; the component stays mounted
OnMountedThrowing(k) ==
  /\ phase = "setup"
  /\ turn = NoAssigns
  /\ phase' = "mounted"
  /\ fault' = [fault EXCEPT !.ctor = k]
  /\ UNCHANGED <<noteVars, knobVars, moreVars>>
  /\ SetAudio(IF variant = "props"
              THEN CreateAudioNodesThrowing(Audio, ui, k)
              ELSE InitializeAudioChainThrowing(Audio, ui, k))
  /\ UNCHANGED <<variant, polling, enabled, ui, pending, turn, lastTurn, ops, seenFlags,
                 offWet, setOff>>

\* onBeforeUnmount in which the dispose() of node n throws
OnBeforeUnmountThrowing(n) ==
  /\ phase = "mounted"
  /\ turn = NoAssigns
  /\ node[n] = "live"
  /\ phase' = "unmounted"
  /\ fault' = [fault EXCEPT !.dispose = n]
  /\ UNCHANGED <<noteVars, knobVars, moreVars>>
  /\ SetAudio(DisposeThrowingAt(Audio, 1, n))
  /\ ops' = [ops EXCEPT !.teardown = @ + 1]
  /\ UNCHANGED <<variant, polling, enabled, ui, pending, turn, lastTurn, seenFlags,
                 offWet, setOff>>

\* bursts of enable toggles
NextRapid ==
  \/ OnMounted
  \/ \E k \in EffectKinds : ToggleRapid(k)
  \/ FlushJobs
  \/ OnBeforeUnmount

SpecRapid == Init /\ [][NextRapid]_vars

\* the note state as one record
NoteState == [starting |-> starting, active |-> activeNotes, log |-> synthLog]

SetNoteState(st) ==
  /\ starting' = st.starting
  /\ activeNotes' = st.active
  /\ synthLog' = st.log

\* the parent's noteOn(note): activeNotes.add(note); osc.noteOn(note).  The parent holds
\* the component through a template ref, which is set while the component is mounted
NoteOn(n) ==
  /\ phase = "mounted"
  /\ noteOps < MaxNoteOps
  /\ noteOps' = noteOps + 1
  /\ SetNoteState(OscNoteOn([NoteState EXCEPT !.active = SetAdd(@, n)], Audio, n))
  /\ pending' = Enqueue(pending, JobsOfNote(variant))
  /\ UNCHANGED <<variant, polling, phase, enabled, ui, node, nodeVal, edges, disposeCalls, threw,
                 liveNodes, ctorCalls, wetApplied, turn, lastTurn, ops, seenFlags, offWet, setOff,
                 fault, knobVars, moreVars>>

\* Tone.start() has resolved: the oldest waiting noteOn continues
StartResolved ==
  /\ starting # <<>>
  /\ SetNoteState(OscNoteOnResumed(NoteState, Audio, variant, Head(starting)))
  /\ pending' = Enqueue(pending, JobsOfNote(variant))
  /\ UNCHANGED <<variant, polling, phase, enabled, ui, node, nodeVal, edges, disposeCalls, threw,
                 liveNodes, ctorCalls, wetApplied, turn, lastTurn, ops, seenFlags, offWet, setOff,
                 fault, noteOps, knobVars, moreVars>>

\* the parent's noteOff(note): activeNotes.delete(note); osc.noteOff(note)
NoteOff(n) ==
  /\ phase = "mounted"
  /\ noteOps < MaxNoteOps
  /\ noteOps' = noteOps + 1
  /\ SetNoteState(OscNoteOff([NoteState EXCEPT !.active = SetDelete(@, n)],
                             Audio, variant, n))
  /\ pending' = Enqueue(pending, JobsOfNote(variant))
  /\ UNCHANGED <<variant, polling, phase, enabled, ui, node, nodeVal, edges, disposeCalls, threw,
                 liveNodes, ctorCalls, wetApplied, turn, lastTurn, ops, seenFlags, offWet, setOff,
                 fault, knobVars, moreVars>>

\* the component played while its effects are toggled
NextNotes ==
  \/ OnMounted
  \/ \E k \in EffectKinds : Toggle(k)
  \/ FlushJobs
  \/ \E n \in Notes : NoteOn(n)
  \/ StartResolved
  \/ \E n \in Notes : NoteOff(n)
  \/ OnBeforeUnmount

SpecNotes == Init /\ [][NextNotes]_vars

\* the effects toggled in SpecSession: one without and one with a wet parameter
SessionKinds == {"filter", "delay"}

\* the parameter assigned in SpecSession: the gain of the output stage
SessionParams == { <<"gainNode", "gain">> }

\* a whole session: toggles, parameter changes and notes between mount and unmount
NextSession ==
  \/ OnMounted
  \/ \E k \in SessionKinds : Toggle(k)
  \/ \E p \in SessionParams, v \in Val : SetParam(p, v)
  \/ FlushJobs
  \/ \E n \in Notes : NoteOn(n)
  \/ StartResolved
  \/ \E n \in Notes : NoteOff(n)
  \/ OnBeforeUnmount

SpecSession == Init /\ [][NextSession]_vars

\* the variables of the Oscillator component, which the Knob handlers leave alone
oscVars == <<variant, polling, phase, enabled, ui, node, nodeVal, edges, disposeCalls, threw,
             liveNodes, ctorCalls, wetApplied, pending, turn, lastTurn, ops, seenFlags, offWet, setOff,
             fault, noteVars>>

\* Knob handleMouseDown on knob k
HandleMouseDown(k) ==
  /\ dragging = NoKnob
  /\ grabs < MaxGrabs
  /\ grabs' = grabs + 1
  /\ dragging' = k
  /\ startValue' = knobValue[k]
  /\ UNCHANGED <<knobValue, emitted, oscVars, moreVars>>

\* Knob handleMouseMove with the pointer deltaY pixels above the grab point; the parent
\* stores the emitted value in the field the knob is bound to (updateDelay etc.)
HandleMouseMove(deltaY) ==
  /\ dragging # NoKnob
  /\ LET v == KnobEmits(KnobDecl[dragging], startValue, deltaY)
     IN /\ emitted' = [knob |-> dragging, value |-> v]
        /\ knobValue' = [knobValue EXCEPT ![dragging] = v]
  /\ UNCHANGED <<dragging, startValue, grabs, oscVars, moreVars>>

\* Knob handleMouseUp
HandleMouseUp ==
  /\ dragging # NoKnob
  /\ dragging' = NoKnob
  /\ UNCHANGED <<knobValue, startValue, emitted, grabs, oscVars, moreVars>>

\* the knobs of EffectControl under the mouse
NextKnob ==
  \/ \E k \in KnobParams : HandleMouseDown(k)
  \/ \E deltaY \in DeltaYs : HandleMouseMove(deltaY)
  \/ HandleMouseUp

SpecKnob == Init /\ [][NextKnob]_vars

\* everything but the state of useAudioGraph
notGraphVars == <<oscVars, knobVars, oscCfg, kbd, env>>

CreateSynth ==
  /\ graph.count < MaxGraphOps
  /\ Len(graph.synths) < MaxSynths
  /\ graph' = GraphCreateSynth(graph)
  /\ UNCHANGED notGraphVars

UpdateSynth(u) ==
  /\ graph.count < MaxGraphOps
  /\ graph' = GraphUpdateSynth(graph, u)
  /\ UNCHANGED notGraphVars

NoteOnGraph(n) ==
  /\ graph.count < MaxGraphOps
  /\ graph' = GraphNoteOn(graph, n)
  /\ UNCHANGED notGraphVars

NoteOffGraph(n) ==
  /\ graph.count < MaxGraphOps
  /\ graph' = GraphNoteOff(graph, n)
  /\ UNCHANGED notGraphVars

\* the callers of useAudioGraph
NextGraph ==
  \/ CreateSynth
  \/ \E u \in SynthUpdates : UpdateSynth(u)
  \/ \E n \in Notes : NoteOnGraph(n)
  \/ \E n \in Notes : NoteOffGraph(n)

SpecGraph == Init /\ [][NextGraph]_vars

\* everything but the state of the OscillatorConfig component
notCfgVars == <<oscVars, knobVars, graph, kbd, env>>

OscCfgMounted ==
  /\ ~oscCfg.mounted
  /\ oscCfg' = CfgOnMounted(oscCfg)
  /\ UNCHANGED notCfgVars

TriggerNote(n) ==
  /\ oscCfg.count < MaxCfgOps
  /\ oscCfg' = CfgTriggerNote(oscCfg, n)
  /\ UNCHANGED notCfgVars

\* the promise a triggerNote waits for has resolved: the oldest one continues
TriggerResumed ==
  /\ oscCfg.waiting # <<>>
  /\ oscCfg' = CfgTriggerResumed(oscCfg)
  /\ UNCHANGED notCfgVars

ReleaseNote(n) ==
  /\ oscCfg.count < MaxCfgOps
  /\ oscCfg' = CfgReleaseNote(oscCfg, n)
  /\ UNCHANGED notCfgVars

OscCfgToggle ==
  /\ oscCfg.mounted
  /\ oscCfg.count < MaxCfgOps
  /\ oscCfg' = CfgToggle(oscCfg)
  /\ UNCHANGED notCfgVars

\* the OscillatorConfig component and its callers
NextConfig ==
  \/ OscCfgMounted
  \/ \E n \in Notes : TriggerNote(n)
  \/ TriggerResumed
  \/ \E n \in Notes : ReleaseNote(n)
  \/ OscCfgToggle

SpecConfig == Init /\ [][NextConfig]_vars

\* everything but the state of the Keyboard component and its parent
notKbdVars == <<oscVars, knobVars, graph, oscCfg, env>>

\* setup and onMounted of the Keyboard of variant v: the key listeners are added, the key
\* buttons are rendered
KbdMounted(v) ==
  /\ kbd.variant = NotSetUp
  /\ kbd' = [KbdInit(v) EXCEPT !.mounted = TRUE]
  /\ UNCHANGED notKbdVars

\* a keydown reaches the window (auto-repeat included); only "emit" listens to keys
KeyDown(key) ==
  /\ kbd.mounted
  /\ kbd.variant = "emit"
  /\ kbd.count < MaxKeyOps
  /\ kbd' = [HandleKeyDown(kbd, key) EXCEPT !.count = @ + 1]
  /\ UNCHANGED notKbdVars

KeyUp(key) ==
  /\ kbd.mounted
  /\ kbd.variant = "emit"
  /\ kbd.count < MaxKeyOps
  /\ kbd' = [HandleKeyUp(kbd, key) EXCEPT !.count = @ + 1]
  /\ UNCHANGED notKbdVars

\* a mouse (or touch) event on the key button of note n
KeyButtonEvent(ev, n) ==
  /\ kbd.mounted
  /\ kbd.count < MaxKeyOps
  /\ kbd' = [KeyButton(kbd, ev, n) EXCEPT !.count = @ + 1]
  /\ UNCHANGED notKbdVars

\* the promise a startNote waits for has resolved
KbdStartResumed ==
  /\ kbd.starting # <<>>
  /\ kbd' = StartNoteResumed(kbd)
  /\ UNCHANGED notKbdVars

\* the promise a noteOn of the parent waits for has resolved
KbdParentResumed ==
  /\ kbd.waiting # <<>>
  /\ kbd' = ParentNoteOnResumed(kbd)
  /\ UNCHANGED notKbdVars

\* onBeforeUnmount of the Keyboard: the key listeners are removed, the buttons are gone
KbdUnmounted ==
  /\ kbd.mounted
  /\ kbd' = [kbd EXCEPT !.mounted = FALSE, !.count = MaxKeyOps]
  /\ UNCHANGED notKbdVars

\* the Keyboard under the keys and the mouse
NextKeys ==
  \/ \E v \in KbdVariants : KbdMounted(v)
  \/ \E key \in Keys : KeyDown(key)
  \/ \E key \in Keys : KeyUp(key)
  \/ \E ev \in {"mousedown", "mouseup", "mouseleave"}, n \in Notes : KeyButtonEvent(ev, n)
  \/ KbdStartResumed
  \/ KbdParentResumed
  \/ KbdUnmounted

SpecKeys == Init /\ [][NextKeys]_vars

\* everything but the state of the envelope editor
notEnvVars == <<oscVars, knobVars, graph, oscCfg, kbd>>

\* setup of the component of variant v that holds the editor
EnvSetup(v) ==
  /\ env.variant = NotSetUp
  /\ env' = EnvInit(v)
  /\ UNCHANGED notEnvVars

EnvMouseDown(point) ==
  /\ env.variant # NotSetUp
  /\ ~env.isDragging
  /\ env' = EnvHandleMouseDown(env, point)
  /\ UNCHANGED notEnvVars

\* a mousemove reaches the document while the listener is added
EnvMouseMove(px, py) ==
  /\ env.isDragging
  /\ env' = EnvHandleMouseMove(env, px, py)
  /\ UNCHANGED notEnvVars

EnvMouseUp ==
  /\ env.isDragging
  /\ env' = EnvHandleMouseUp(env)
  /\ UNCHANGED notEnvVars

\* the envelope editor under the mouse
NextEnvelope ==
  \/ \E v \in EnvVariants : EnvSetup(v)
  \/ \E point \in DragPoints \cup {NoPoint} : EnvMouseDown(point)
  \/ \E px \in PointerXs, py \in PointerYs : EnvMouseMove(px, py)
  \/ EnvMouseUp

SpecEnvelope == Init /\ [][NextEnvelope]_vars

\* the interval callback runs; nothing clears the timer
MeterTick ==
  /\ polling.timer
  /\ polling.ticks < MaxTicks
  /\ polling' = MeterCallback(polling, Audio)
  /\ UNCHANGED <<variant, phase, enabled, ui, node, nodeVal, edges, disposeCalls, threw,
                 liveNodes, ctorCalls, wetApplied, pending, turn, lastTurn, ops, seenFlags,
                 offWet, setOff, otherVars>>

\* the component with its meter polled, from mount to after unmount
NextMeter ==
  \/ OnMounted
  \/ \E k \in EffectKinds : ToggleFree(k)
  \/ FlushJobs
  \/ OnBeforeUnmount
  \/ MeterTick

SpecMeter == Init /\ [][NextMeter]_vars

\* the component with one constructor or one dispose() call throwing
NextFault ==
  \/ OnMounted
  \/ \E k \in EffectKinds : OnMountedThrowing(k)
  \/ \E k \in EffectKinds : Toggle(k)
  \/ FlushJobs
  \/ OnBeforeUnmount
  \/ \E n \in NodeNames : OnBeforeUnmountThrowing(n)

SpecFault == Init /\ [][NextFault]_vars

TypeOK ==
  /\ variant \in {"props", "refs"}
  /\ phase \in {"setup", "mounted", "unmounted"}
  /\ enabled \in [EffectKinds -> BOOLEAN]
  /\ ui \in [AllParams -> Val]
  /\ node \in [NodeNames -> {"null", "live", "disposed"}]
  /\ nodeVal \in [AllParams -> Val \cup {LibDefault, NoNode}]
  /\ edges \subseteq (NodeNames \X (NodeNames \cup {Destination}))
  /\ threw \in BOOLEAN
  /\ liveNodes \in [NodeNames -> 0..1]
  /\ ctorCalls \in [NodeNames -> 0..MaxCtorCalls]
  /\ wetApplied \subseteq AllParams
  /\ Len(pending) <= 1 + MaxAssigns + MaxBurst
  /\ starting \in Seq(Notes) /\ Len(starting) <= MaxNoteOps
  /\ Len(synthLog) <= MaxNoteOps
  /\ \A i \in 1..Len(activeNotes) : activeNotes[i] \in Notes
  /\ noteOps \in 0..MaxNoteOps
  /\ knobValue \in [KnobParams -> Int]
  /\ dragging \in KnobParams \cup {NoKnob}
  /\ startValue \in Int
  /\ emitted.knob \in KnobParams \cup {NoKnob}
  /\ grabs \in 0..MaxGrabs
  /\ polling.timer \in BOOLEAN /\ polling.ticks \in 0..MaxTicks
  /\ polling.read \in {"none", "null", "live", "disposed"}
  /\ kbd.variant \in KbdVariants \cup {NotSetUp} /\ kbd.activeKeys \subseteq Notes
  /\ kbd.activeNotes \subseteq Notes /\ kbd.count \in 0..MaxKeyOps
  /\ kbd.starting \in Seq(Notes) /\ kbd.waiting \in Seq(Notes)
  /\ env.variant \in EnvVariants \cup {NotSetUp} /\ env.dragPoint \in DragPoints \cup {NoPoint}
  /\ \A f \in {"attack", "hold", "decay", "sustain", "release"} : env.envelope[f] \in Int
  /\ Len(graph.synths) <= MaxSynths
  /\ \A i \in 1..Len(graph.activeNotes) : graph.activeNotes[i] \in Notes
  /\ graph.count \in 0..MaxGraphOps
  /\ oscCfg.synth \in 0..2
  /\ oscCfg.enabled \in BOOLEAN
  /\ oscCfg.count \in 0..MaxCfgOps
  /\ Len(oscCfg.log) <= MaxCfgOps

\* ---------------------------------------------------------------- properties
\* the canonical order named by the specification
CanonicalOrder == <<"filter", "distortion", "bitCrusher", "delay",
                    "chorus", "phaser", "reverb", "compressor">>

EnabledInOrder(en) == SelectSeq(CanonicalOrder, LAMBDA k : en[k])

\* one linear path: source, enabled effects, pan, gain, meter, output
LinearTopology(en) ==
  ConnectSeries(<<"synth">> \o EnabledInOrder(en)
                \o <<"panner", "gainNode", "meter", Destination>>)

\* source, enabled effects, pan, gain; gain feeds the meter and the output side by side
TappedTopology(en) ==
  ConnectSeries(<<"synth">> \o EnabledInOrder(en) \o <<"panner", "gainNode">>)
    \cup {<<"gainNode", "meter">>, <<"gainNode", Destination>>}

Quiescent == pending = <<>> /\ turn = NoAssigns

\* a step in which the chain rebuild ran: onMounted, or a flush that called the callback
RebuildRan ==
  \/ phase = "setup" /\ phase' = "mounted"
  \/ turn # NoAssigns /\ turn' = NoAssigns /\ lastTurn'.chain = 1

C3_RebuildInAssignment ==
  [][(phase = "mounted" /\ enabled' # enabled) => edges' = TappedTopology(enabled')]_vars

\* C3 amended: the rebuild runs in the watcher flush that ends the turn of the flipping
\* assignment: the assignment leaves the old topology connected and queues the rebuild
\* job, and when the flush has run the topology of the new flags is fully connected
C3_RebuildInFlush ==
  [][/\ (phase = "mounted" /\ enabled' # enabled)
          => (edges' = edges /\ InQueue(pending', ChainJob))
     /\ (phase = "mounted" /\ pending # <<>> /\ pending' = <<>>)
          => edges' = TappedTopology(enabled')]_vars

C3_Witness ==
  /\ phase = "mounted"
  /\ InQueue(pending, ChainJob)
  /\ enabled # seenFlags
  /\ edges = TappedTopology(seenFlags)
  /\ edges # TappedTopology(enabled)

Flip(en, k) == [en EXCEPT ![k] = ~@]

\* the audio state after flag k has been flipped to give en and the flush has run
Toggled(a, en, k) == RunJobs(a, JobsOfToggle(variant, k), variant, en, ui)

\* C4: the topology depends on the enabled set only, not on the order of the toggles:
\* toggles of two different kinds commute, and toggling a kind twice restores the edges
C4_OrderIndependent ==
  (phase = "mounted" /\ Quiescent) =>
    \A i \in 1..Len(Kinds) :
      LET x == Kinds[i]
          ex == Flip(enabled, x)
          ax == Toggled(Audio, ex, x)
      IN /\ Toggled(ax, enabled, x).edges = edges
         /\ \A j \in (i + 1)..Len(Kinds) :
              LET y == Kinds[j]
                  ey == Flip(enabled, y)
                  exy == Flip(ex, y)
              IN Toggled(ax, exy, y).edges = Toggled(Toggled(Audio, ey, y), exy, x).edges

C4_Witness ==
  /\ phase = "mounted"
  /\ Quiescent
  /\ lastTurn.mounted /\ lastTurn.chain = 1
  /\ enabled["filter"]
  /\ enabled["reverb"]
  /\ <<"filter", "reverb">> \in edges

\* C5: a flush of a turn in which no enabled flag was assigned does not invoke the
\* chain rebuild
C5_ParamNeverRebuilds == lastTurn.flag = 0 => lastTurn.chain = 0

\* C6: a step of a turn that assigns parameters (effect parameter, gain or pan) and no
\* enabled flag leaves the set of edges as it was
C6_ParamKeepsEdges ==
  [][(phase = "mounted" /\ phase' = "mounted" /\ turn.flag = 0 /\ turn'.flag = 0)
       => edges' = edges]_vars

C6_Witness ==
  /\ phase = "mounted"
  /\ Quiescent
  /\ lastTurn.mounted /\ lastTurn.param = 1 /\ lastTurn.flag = 0
  /\ \E p \in AllParams :
       /\ p[1] \in EffectKinds
       /\ enabled[p[1]]
       /\ ui[p] # 0
       /\ nodeVal[p] = ui[p]
  /\ edges = TappedTopology(enabled)

\* C7: once a wet effect has been toggled off and on again, its node is in the chain and
\* carries the wet value that was current at the toggle-off
C7_WetSurvivesOffOn ==
  \A k \in WetKinds :
    (phase = "mounted" /\ pending = <<>> /\ enabled[k] /\ offWet[k] # NoNode)
      => /\ nodeVal[<<k, "wet">>] = offWet[k]
         /\ \E e \in edges : e[2] = k

C7_Witness ==
  /\ phase = "mounted"
  /\ Quiescent
  /\ \E k \in WetKinds :
       /\ enabled[k]
       /\ offWet[k] = MaxVal
       /\ nodeVal[<<k, "wet">>] = MaxVal

\* C8: a parameter assigned while its effect was disabled is the value the node carries
\* once the effect is enabled and the chain rebuilt
C8_SetWhileDisabledRetained ==
  \A p \in setOff :
    (phase = "mounted" /\ Quiescent /\ enabled[p[1]]) => nodeVal[p] = ui[p]

\* C9: while no node has been constructed, parameter updates throw nothing and change
\* neither a node nor the topology
C9_NoNodeNoOp ==
  (\A n \in NodeNames : node[n] = "null")
    => (~threw /\ edges = {} /\ \A p \in AllParams : nodeVal[p] = NoNode)

C9_Witness ==
  /\ \A n \in NodeNames : node[n] = "null"
  /\ Quiescent
  /\ lastTurn.param = 1
  /\ \E p \in AllParams : ui[p] # 0
  /\ ~threw

\* C10: a run of the dispose-all step on a component that is already torn down throws
\* nothing, disposes nothing and leaves the registry as the first run left it
C10_SecondTeardownNoOp ==
  [][(phase = "unmounted" /\ ops'.teardown > ops.teardown)
       => (node' = node /\ disposeCalls' = disposeCalls /\ threw' = threw)]_vars

\* C11: every re-invocation of initializeAudioChain disposes the nodes it replaces before
\* it constructs: in every state each kind has at most one live node, and that node is the
\* one behind the handle, so no node of an earlier initialization stays undisposed
C11_DisposedBeforeRebuilt ==
  \A n \in NodeNames : liveNodes[n] = IF node[n] = "live" THEN 1 ELSE 0

C11_Witness ==
  /\ variant = "refs"
  /\ phase = "mounted"
  /\ Quiescent
  /\ lastTurn.mounted /\ lastTurn.chain = 1
  /\ \A n \in NodeNames : ctorCalls[n] = 2 /\ liveNodes[n] = 1 /\ node[n] = "live"

\* C12: when the constructor of one effect kind has thrown, every other node (the other
\* kinds, the sound source, the output stage) is constructed and only that slot is absent
C12_OthersStillConstructed ==
  (phase = "mounted" /\ fault.ctor # "none" /\ lastTurn = NoFlush /\ turn = NoAssigns)
    => /\ node[fault.ctor] = "null"
       /\ \A n \in NodeNames \ {fault.ctor} : node[n] = "live"

\* C13: when one dispose() call of the teardown has thrown, nothing reaches the caller and
\* every other owned node has been disposed
C13_TeardownCompletes ==
  (phase = "unmounted" /\ fault.dispose # "none")
    => /\ ~threw
       /\ \A n \in NodeNames \ {fault.dispose} : node[n] # "live"

\* only noteOn calls have been made so far
OnlyNoteOns == \A i \in 1..Len(synthLog) : synthLog[i][1] = "attack"

\* C14: every noteOn call is forwarded to the sound source, also when the note is already
\* active (the continuation of each call appends its own triggerAttack); after a sequence
\* of noteOn calls activeNotes holds the note exactly once; activeNotes never holds a
\* name twice
C14_RetriggerForwardedOnce ==
  [][/\ \A n \in Notes : Count(activeNotes', n) <= 1
     /\ (starting # <<>> /\ starting' = Tail(starting) /\ phase = "mounted")
          => /\ synthLog' = Append(synthLog, <<"attack", Head(starting)>>)
             /\ OnlyNoteOns => Count(activeNotes', Head(starting)) = 1]_vars

C14_Witness ==
  /\ phase = "mounted"
  /\ starting = <<>>
  /\ synthLog = <<<<"attack", "C4">>, <<"attack", "C4">>>>
  /\ activeNotes = <<"C4">>

\* C15: a step of noteOn (the call or its continuation) or of noteOff queues no watcher
\* job, so it invokes no chain rebuild, and it changes neither the topology, nor an
\* enabled flag, nor an effect parameter in the reactive state or on a node
C15_NotesBypassChain ==
  [][(noteVars' # noteVars)
       => /\ pending' = pending
          /\ lastTurn' = lastTurn
          /\ edges' = edges
          /\ enabled' = enabled
          /\ ui' = ui
          /\ nodeVal' = nodeVal
          /\ node' = node
          /\ ctorCalls' = ctorCalls]_vars

C15_Witness ==
  /\ phase = "mounted"
  /\ Quiescent
  /\ starting = <<>>
  /\ synthLog = <<<<"attack", "C4">>, <<"release", "C4">>>>
  /\ \E k \in EffectKinds : enabled[k]
  /\ edges = TappedTopology(enabled)

\* the step appends a triggerAttack to the calls the sound source received
AttackForwarded ==
  /\ Len(synthLog') = Len(synthLog) + 1
  /\ synthLog'[Len(synthLog')][1] = "attack"

\* C16: a triggerAttack is forwarded only by the continuation that runs when Tone.start()
\* has resolved, never by the noteOn call itself, and for the note of the oldest waiting
\* call; a toggle and a rebuild that run while a call waits take effect as at any other
\* time and leave the waiting call waiting
C16_AttackAfterStart ==
  [][/\ AttackForwarded
          => /\ starting # <<>>
             /\ starting' = Tail(starting)
             /\ synthLog'[Len(synthLog')][2] = Head(starting)
     /\ (starting # <<>> /\ phase = "mounted" /\ enabled' # enabled)
          => (starting' = starting /\ InQueue(pending', ChainJob))
     /\ (starting # <<>> /\ phase = "mounted" /\ pending # <<>> /\ pending' = <<>>)
          => (starting' = starting /\ edges' = TappedTopology(enabled'))]_vars

\* a rebuild ran while a noteOn call was waiting, and the attack was forwarded afterwards
C16_Witness ==
  /\ phase = "mounted"
  /\ Quiescent
  /\ lastTurn.mounted /\ lastTurn.chain = 1 /\ lastTurn.waiting
  /\ starting = <<>>
  /\ synthLog = <<<<"attack", "C4">>>>
  /\ edges = TappedTopology(enabled)

\* C17 as stated: the flush of a turn in which k enable toggles were issued runs k
\* rebuilds
C17_RebuildPerToggle ==
  (lastTurn.mounted /\ lastTurn.param = 0) => lastTurn.chain = lastTurn.flag

\* C17 amended: the toggles of one turn share one queued job, so the flush of the turn
\* runs the rebuild at most once; a turn with a single toggle runs it exactly once, and
\* so does every turn with toggles in the props variant
C17_RebuildPerTurn ==
  (lastTurn.mounted /\ lastTurn.param = 0 /\ lastTurn.flag > 0)
    => /\ lastTurn.chain <= 1
       /\ (lastTurn.flag = 1 \/ variant = "props") => lastTurn.chain = 1

C17_Witness ==
  /\ phase = "mounted"
  /\ Quiescent
  /\ lastTurn.mounted /\ lastTurn.flag = 2 /\ lastTurn.chain = 1
  /\ enabled["filter"] /\ enabled["delay"]
  /\ edges = TappedTopology(enabled)

\* C18: while the component is mounted, whatever toggles, parameter changes and note
\* events came before, there is exactly one live sound source and exactly one live
\* panner, gain node and meter, and the handles refer to them
C18_OneSourceOneOutputStage ==
  phase = "mounted" =>
    \A n \in {"synth", "panner", "gainNode", "meter"} :
      liveNodes[n] = 1 /\ node[n] = "live"

\* mounted, after two toggles that were flushed (refs: the nodes were constructed again),
\* a parameter change and a note forwarded to the source
C18_Witness ==
  /\ phase = "mounted"
  /\ variant = "refs"
  /\ Quiescent
  /\ ops.toggle = MaxToggles
  /\ ops.param > 0
  /\ synthLog # <<>>
  /\ ctorCalls["synth"] = MaxCtorCalls

\* C19: the flush that follows a toggle on the mounted component constructs no node and
\* disposes none: every handle refers to the node it referred to before the toggle
C19_ToggleKeepsNodes ==
  [][(phase = "mounted" /\ turn.flag > 0 /\ turn' = NoAssigns) =>
       /\ ctorCalls' = ctorCalls
       /\ disposeCalls' = disposeCalls
       /\ node' = node
       /\ liveNodes' = liveNodes]_vars

\* C20: every value a knob of EffectControl emits lies within the min and max declared
\* for that knob
C20_EmittedWithinRange ==
  emitted # NoEmit =>
    /\ KnobDecl[emitted.knob].min <= emitted.value
    /\ emitted.value <= KnobDecl[emitted.knob].max

\* C21: after a flush that rebuilt the chain of the mounted component, every enabled
\* effect with a wet parameter is connected and its node carries the current wet value
C21_WetCurrentAfterRebuild ==
  (phase = "mounted" /\ lastTurn.mounted /\ lastTurn.chain > 0) =>
    \A k \in WetKinds :
      enabled[k] => /\ nodeVal[<<k, "wet">>] = ui[<<k, "wet">>]
                    /\ \E e \in edges : e[2] = k

\* a rebuild that brought in a wet effect whose wet value was assigned while it was out
\* of the chain
C21_Witness ==
  /\ phase = "mounted"
  /\ lastTurn.mounted
  /\ lastTurn.chain > 0
  /\ lastTurn.flag > 0
  /\ \E k \in WetKinds :
       /\ enabled[k]
       /\ ui[<<k, "wet">>] = MaxVal
       /\ nodeVal[<<k, "wet">>] = MaxVal

\* C21 as stated: the rebuild itself writes the current wet value to every wet effect
\* it connects
C21_RebuildWritesWet ==
  (phase = "mounted" /\ lastTurn.mounted /\ lastTurn.chain > 0) =>
    \A k \in WetKinds : enabled[k] => <<k, "wet">> \in wetApplied

\* node k has a connection coming in and a connection going out
InChain(k) == (\E e \in edges : e[2] = k) /\ (\E e \in edges : e[1] = k)

\* C22: after a flush that rebuilt the chain of the mounted component, an enabled effect
\* whose node exists is in the connected chain (and the node exists when no constructor
\* threw); an enabled effect whose node is absent has no connection
C22_EnabledInChainOrFiltered ==
  (phase = "mounted" /\ lastTurn.mounted /\ lastTurn.chain > 0) =>
    \A k \in EffectKinds :
      enabled[k] =>
        /\ fault.ctor = "none" => node[k] = "live"
        /\ node[k] = "live" => InChain(k)
        /\ node[k] = "null" => \A e \in edges : e[1] # k /\ e[2] # k

\* a rebuild with one enabled effect whose node exists and one whose node is absent
C22_Witness ==
  /\ phase = "mounted"
  /\ lastTurn.mounted
  /\ lastTurn.chain > 0
  /\ \E k \in EffectKinds : enabled[k] /\ node[k] = "live" /\ InChain(k)
  /\ \E k \in EffectKinds : enabled[k] /\ node[k] = "null"

\* C23: no noteOff(n) reaches the sound source while the noteOn(n) called before it is
\* still waiting for Tone.start(): the release of a note never overtakes its attack
C23_AttackBeforeRelease ==
  [][\A n \in Notes :
       (Has(starting, n) /\ Len(synthLog') > Len(synthLog))
         => synthLog'[Len(synthLog')] # <<"release", n>>]_vars

\* the notes whose most recent event was noteOn
LastOn == {n \in Notes : graph.lastEvent[n] = "on"}

\* C24: activeNotes holds, once each, the notes whose most recent event was noteOn; a
\* noteOn forwarded one triggerAttack of its note to every synth of the list, a noteOff
\* one triggerRelease, whether or not the note was active
C24_GraphNotes ==
  /\ {graph.activeNotes[i] : i \in 1..Len(graph.activeNotes)} = LastOn
  /\ Len(graph.activeNotes) = Cardinality(LastOn)
  /\ graph.op \in {"noteOn", "noteOff"} =>
       /\ Len(graph.calls) = Len(graph.synths)
       /\ \A i \in 1..Len(graph.synths) :
            graph.calls[i] = <<IF graph.op = "noteOn" THEN "attack" ELSE "release",
                               graph.note, graph.synths[i].synth>>

\* a noteOff of a note that is not active, forwarded to two synths
C24_Witness ==
  /\ graph.op = "noteOff"
  /\ Len(graph.synths) = 2
  /\ Len(graph.calls) = 2
  /\ graph.count = 3

\* C29: a call of updateSynth(u) replaces the entries of synths whose id is u.id by u
\* and leaves the other entries, the length, the order and activeNotes as they were; with
\* no entry of that id the list is unchanged
C29_UpdateSynthFrame ==
  [][(graph'.count = graph.count + 1 /\ graph'.op = "updateSynth") =>
       LET u == graph'.arg
       IN /\ Len(graph'.synths) = Len(graph.synths)
          /\ \A i \in 1..Len(graph.synths) :
               graph'.synths[i] = IF graph.synths[i].id = u.id THEN u ELSE graph.synths[i]
          /\ (\A i \in 1..Len(graph.synths) : graph.synths[i].id # u.id)
               => graph'.synths = graph.synths
          /\ graph'.activeNotes = graph.activeNotes]_vars

\* updateSynth replaced one of two entries while a note was active
C29_Witness ==
  /\ graph.op = "updateSynth"
  /\ Len(graph.synths) = 2
  /\ graph.activeNotes # <<>>
  /\ \E i, j \in 1..2 :
       /\ graph.synths[i] = graph.arg
       /\ graph.synths[i] # SynthData(i, i, 0)
       /\ graph.synths[j].id # graph.arg.id

\* the notes with a triggerAttack in the log and no triggerRelease after it
CfgSounding ==
  {n \in Notes :
     \E i \in 1..Len(oscCfg.log) :
       /\ oscCfg.log[i].what = "attack" /\ oscCfg.log[i].note = n
       /\ \A j \in (i + 1)..Len(oscCfg.log) :
            ~(oscCfg.log[j].what = "release" /\ oscCfg.log[j].note = n)}

\* C25: activeNotes holds the notes attacked and not released since; every release
\* was of a note in activeNotes; every call reached the synth while the oscillator was on
C25_ConfigNotes ==
  /\ {oscCfg.activeNotes[i] : i \in 1..Len(oscCfg.activeNotes)} = CfgSounding
  /\ \A i \in 1..Len(oscCfg.log) :
       /\ oscCfg.log[i].on
       /\ oscCfg.log[i].what = "release" => oscCfg.log[i].active

\* a note attacked, the oscillator switched off, a releaseNote and a triggerNote that
\* both forwarded nothing: the note is still in activeNotes
C25_Witness ==
  /\ ~oscCfg.enabled
  /\ oscCfg.count = MaxCfgOps
  /\ oscCfg.waiting = <<>>
  /\ Len(oscCfg.log) = 1
  /\ oscCfg.activeNotes # <<>>

\* the key events in the Keyboard's log
KeyEvents == {"keydown", "keyup"}

\* the kind of the last key event of key in the log, "none" when there is none
LastKeyEvent(log, key) ==
  LET at == {i \in 1..Len(log) : log[i][1] \in KeyEvents /\ log[i][2] = key}
  IN  IF at = {} THEN "none"
      ELSE log[CHOOSE i \in at : \A j \in at : j <= i][1]

\* log[i] is a noteOn of note n emitted by handleKeyDown: the keydown is logged before it
KeyNoteOnAt(log, i, n) ==
  /\ i > 1
  /\ log[i] = <<"noteOn", n>>
  /\ log[i - 1][1] = "keydown"

\* C26: the key handlers emit noteOn for a mapped note at most once per key hold: two
\* noteOn emissions of handleKeyDown for the same note have a keyup of that note between
\* them, and activeKeys is the set of the mapped notes whose last key event was a keydown
C26_OncePerKeyHold ==
  /\ \A n \in Notes : \A i, j \in 1..Len(kbd.log) :
       (i < j /\ KeyNoteOnAt(kbd.log, i, n) /\ KeyNoteOnAt(kbd.log, j, n))
         => \E m \in (i + 1)..(j - 1) :
              kbd.log[m][1] = "keyup" /\ KeyMap(kbd.log[m][2]) = n
  /\ kbd.activeKeys =
       {KeyMap(key) : key \in {k \in Keys : KeyMap(k) # NoNote
                                            /\ LastKeyEvent(kbd.log, k) = "keydown"}}

\* a key went down, repeated and came up: the repeat emitted nothing, the note was started
\* once and ended, and activeKeys is empty again
C26_Witness ==
  /\ Len(kbd.log) >= 6
  /\ SubSeq(kbd.log, 1, 6) = << <<"keydown", "z">>, <<"noteOn", "C4">>,
                                <<"keydown", "z">>, <<"keyup", "z">>,
                                <<"noteOff", "C4">>, <<"release", "C4">> >>
  /\ kbd.activeKeys = {}

\* the events the Keyboard receives from the user
UiEvents == KeyEvents \cup {"mousedown", "mouseup", "mouseleave"}

\* the index of the user event whose handler made log[i]; for a noteOff or a release,
\* which are made synchronously, it is the last user event at or before i
CauseOf(log, i) ==
  LET at == {c \in 1..i : log[c][1] \in UiEvents}
  IN  IF at = {} THEN 0 ELSE CHOOSE c \in at : \A j \in at : j <= c

\* the number of entries e among the first c - 1 of the log
CountBefore(log, e, c) == Cardinality({j \in 1..(c - 1) : log[j] = e})

\* C27: a mouseup or mouseleave on a key button emits noteOff(n), and forwards
\* triggerRelease(n), only when note n is active: started more often than ended before
\* the event
C27_NoteOffOnlyForActive ==
  \A i \in 1..Len(kbd.log) :
    LET c == CauseOf(kbd.log, i)
        n == kbd.log[i][2]
    IN  (/\ kbd.log[i][1] \in {"noteOff", "release"}
         /\ c > 0
         /\ kbd.log[c][1] \in {"mouseup", "mouseleave"})
          => CountBefore(kbd.log, <<"noteOn", n>>, c) > CountBefore(kbd.log, <<"noteOff", n>>, c)

\* C28: the meter-polling callback never calls getValue() on a meter that was disposed:
\* after teardown the task has stopped
C28_NoPollAfterDispose == polling.read # "disposed"

\* C30: whatever handles are dragged, and wherever the pointer goes, attack, hold and decay
\* stay between 0.01 s and 2 s, sustain stays between 0 and 1, and release keeps its value
C30_EnvelopeValid ==
  env.variant # NotSetUp =>
    /\ \A f \in {"attack", "hold", "decay"} : env.envelope[f] \in 1..200
    /\ env.envelope.sustain \in 0..100
    /\ env.envelope.release = EnvInit(env.variant).envelope.release

\* attack was dragged to 2 s, then the sustain handle to the left edge and the top: decay
\* would come out negative and is held at 0.01 s
C30_Witness ==
  /\ env.variant = "stretch"
  /\ env.moved = "sustain"
  /\ env.envelope.attack = 200
  /\ env.envelope.sustain = 100
  /\ env.envelope.decay = 1

====
